---- MODULE Spec2Model ----
(***************************************************************************)
(* Faculty-Tracker: the Session store and the session conflict check.      *)
(*                                                                         *)
(* State: the Session table, the Teacher table's status column, the pk     *)
(* sequence, the progress of a running seeding command, the response of    *)
(* the last operation and the form submissions that have been validated    *)
(* but not yet saved.  Operations: the two seeding routines (one action    *)
(* per loop iteration), SessionCreateView / SessionUpdateView /            *)
(* SessionDeleteView, the AJAX endpoint check_session_conflicts and the    *)
(* model property Session.is_conflicting.                                  *)
(*                                                                         *)
(* Times are minutes since midnight, dates are day numbers with            *)
(* date % 7 = date.weekday() (0 = Monday).  Strings that the code parses   *)
(* (strptime, int()) are sequences of one-character strings.               *)
(***************************************************************************)
EXTENDS Integers, Sequences, FiniteSets, TLC

VARIABLES sessions, teachers, nextId, seed, last, inflight

vars == <<sessions, teachers, nextId, seed, last, inflight>>

\* Python's None where a number is expected, and a raised ValueError
None == -1
ValueError == -2

(***************************************************************************)
(* Bounds of the model.                                                    *)
(***************************************************************************)
\* rows the Session table may hold / pks the sequence hands out
MaxSessions == 2
\* largest --num-sessions / sessions_per_teacher argument of a seeding run
MaxCount == 2

\* form submissions that may be between validation and save at one time
MaxInflight == 2

\* the Teacher rows (pks) and the Subject rows (pks, all is_active)
TeacherIds == {1, 2}
SubjectIds == {1}
\* the prefix of days_of_week the seeders draw from
SeedDays == {"monday"}
\* the values of random.randint(0, 20) / random.randint(0, 8) drawn
SeedOffsets == {0, 1}
\* the clock times (minutes since midnight) the model uses: 08:00 09:00 10:00
Times == {480, 540, 600}

(***************************************************************************)
(* models.py                                                               *)
(***************************************************************************)
DAYS_OF_WEEK ==
    <<"monday", "tuesday", "wednesday", "thursday", "friday", "saturday", "sunday">>

STATUS_CHOICES ==
    <<"scheduled", "in_progress", "completed", "cancelled", "rescheduled">>

TEACHER_STATUS == {"active", "inactive", "on_leave"}

Range(f) == {f[i] : i \in DOMAIN f}

\* Teacher.full_name and Subject.name: data of the rows, distinct per row
FullName(t) == <<"teacher", t>>
SubjectName(s) == <<"subject", s>>

\* datetime.date.weekday(): Monday is 0
Weekday(d) == d % 7

\* str(datetime.time): HH:MM:SS
TimeStr(t) == <<t \div 60, t % 60, 0>>

\* the collation order of the day_of_week column (a CharField)
DaySorted ==
    <<"friday", "monday", "saturday", "sunday", "thursday", "tuesday", "wednesday">>

DayRank(d) == CHOOSE i \in DOMAIN DaySorted : DaySorted[i] = d

\* Session.Meta.ordering = ['-date', 'day_of_week', 'start_time']:
\* row a is returned strictly before row b (rows that tie come in any order)
SessionOrder(a, b) ==
    \/ a.date > b.date
    \/ a.date = b.date /\ DayRank(a.day_of_week) < DayRank(b.day_of_week)
    \/ a.date = b.date /\ a.day_of_week = b.day_of_week /\ a.start_time < b.start_time

\* (an exclude() that is dropped: the row edited stays in the query)
ExcludeNothing(qs, pk) == qs

\* QuerySet.exclude(pk=...): exclude(pk=None) excludes no row
ExcludePk(qs, pk) == {s \in qs : s.id # pk}

\* the loop `for session in qs: if start < session.end_time and end >
\* session.start_time: <stop>`: the rows the loop can stop at, i.e. the
\* overlapping rows that no overlapping row precedes in the query's order
\* (the comparison with <= and >=: adjacent intervals would overlap)
OverlapsClosed(start, end, session) ==
    start <= session.end_time /\ end >= session.start_time

\* (the comparison strict on one side only)
Overlaps_one_sided(start, end, session) ==
    start < session.end_time /\ end >= session.start_time

Overlaps(start, end, session) ==
    start < session.end_time /\ end > session.start_time

FirstOverlap(qs, start, end) ==
    LET hits == {s \in qs : Overlaps(start, end, s)}
    IN  {s \in hits : \A o \in hits : ~SessionOrder(o, s)}

(***************************************************************************)
(* Session.is_conflicting (models.py)                                      *)
(***************************************************************************)
IsConflictingQuery(store, self) ==
    ExcludePk({s \in store : /\ s.teacher = self.teacher
                             /\ s.date = self.date
                             /\ s.status = "scheduled"}, self.id)

is_conflicting(store, self) ==
    FirstOverlap(IsConflictingQuery(store, self), self.start_time, self.end_time) # {}

(***************************************************************************)
(* Python conversions used by the views and the seeding commands           *)
(***************************************************************************)
DigitChars == <<"0", "1", "2", "3", "4", "5", "6", "7", "8", "9">>

IsDigit(c) == c \in Range(DigitChars)

DigitVal(c) == (CHOOSE i \in DOMAIN DigitChars : DigitChars[i] = c) - 1

RECURSIVE DigitsVal(_)
DigitsVal(str) ==
    IF str = <<>> THEN 0
    ELSE 10 * DigitsVal(SubSeq(str, 1, Len(str) - 1)) + DigitVal(str[Len(str)])

AllDigits(str) == str # <<>> /\ \A i \in DOMAIN str : IsDigit(str[i])

\* int(str) as the ORM applies it to a pk / foreign key lookup value
ToInt(str) == IF AllDigits(str) THEN DigitsVal(str) ELSE ValueError

\* (a parser that also takes four digits without the colon, 'HHMM')
strptime_HM_or_HHMM(str) ==
    LET colons == {i \in DOMAIN str : str[i] = ":"}
    IN  IF Cardinality(colons) = 0 /\ Len(str) = 4 /\ AllDigits(str)
        THEN 60 * DigitsVal(SubSeq(str, 1, 2)) + DigitsVal(SubSeq(str, 3, 4))
        ELSE IF Cardinality(colons) # 1 THEN ValueError
        ELSE LET c == CHOOSE i \in colons : TRUE
                 hh == SubSeq(str, 1, c - 1)
                 mm == SubSeq(str, c + 1, Len(str))
             IN  IF /\ AllDigits(hh) /\ Len(hh) <= 2 /\ DigitsVal(hh) < 24
                    /\ AllDigits(mm) /\ Len(mm) <= 2 /\ DigitsVal(mm) < 60
                 THEN 60 * DigitsVal(hh) + DigitsVal(mm)
                 ELSE ValueError

\* datetime.strptime(str, '%H:%M').time(): one or two digits of hour (< 24),
\* a colon, one or two digits of minute (< 60), nothing else
strptime_HM(str) ==
    LET colons == {i \in DOMAIN str : str[i] = ":"}
    IN  IF Cardinality(colons) # 1 THEN ValueError
        ELSE LET c == CHOOSE i \in colons : TRUE
                 hh == SubSeq(str, 1, c - 1)
                 mm == SubSeq(str, c + 1, Len(str))
             IN  IF /\ AllDigits(hh) /\ Len(hh) <= 2 /\ DigitsVal(hh) < 24
                    /\ AllDigits(mm) /\ Len(mm) <= 2 /\ DigitsVal(mm) < 60
                 THEN 60 * DigitsVal(hh) + DigitsVal(mm)
                 ELSE ValueError

\* truthiness: None is falsy, every date and time is truthy; a missing
\* request parameter (None) and the empty string are both falsy
Truthy(x) == x # None
TruthyStr(str) == str # <<>>

(***************************************************************************)
(* SessionForm (forms.py).  `data` is the submitted form after the fields' *)
(* own conversion: a field that is missing or unparsable is None.          *)
(***************************************************************************)
\* __init__: the teacher field only offers the active teachers, so any
\* other choice fails the field and is absent from cleaned_data
\* (the queryset Teacher.objects.all(): every teacher is offered)
ActiveTeachers_any_status(tchrs) == DOMAIN tchrs

ActiveTeachers(tchrs) == {t \in DOMAIN tchrs : tchrs[t] = "active"}

CleanedData(tchrs, data) ==
    [data EXCEPT !.teacher =
        IF data.teacher \in ActiveTeachers(tchrs) THEN data.teacher ELSE None]

\* (the teacher field declared with required=False)
FieldErrors_teacher_optional(cleaned) ==
    {f \in {"subject", "date", "start_time", "end_time"} : ~Truthy(cleaned[f])}

\* the required fields that failed their own validation
FieldErrors(cleaned) ==
    {f \in {"teacher", "subject", "date", "start_time", "end_time"} :
        ~Truthy(cleaned[f])}

\* (a query that is empty when a stored session is edited: only new sessions
\* are checked)
FormQuery_new_only(store, cleaned, pk) ==
    IF pk = None
    THEN {s \in store : /\ s.teacher = cleaned.teacher
                        /\ s.date = cleaned.date
                        /\ s.status = "scheduled"}
    ELSE {}

\* the candidate query of clean(): .filter(teacher, date, status).exclude(pk)
FormQuery(store, cleaned, pk) ==
    ExcludePk({s \in store : /\ s.teacher = cleaned.teacher
                             /\ s.date = cleaned.date
                             /\ s.status = "scheduled"}, pk)

\* (the message built from the submitted times instead of the row's)
FormMessageOfSubmission(cleaned, session) ==
    [kind |-> "already has a class scheduled",
     teacher |-> FullName(cleaned.teacher),
     start |-> TimeStr(cleaned.start_time),
     end |-> TimeStr(cleaned.end_time),
     date |-> cleaned.date]

\* the message of the ValidationError raised on a conflict
FormMessage(cleaned, session) ==
    [kind |-> "already has a class scheduled",
     teacher |-> FullName(cleaned.teacher),
     start |-> TimeStr(session.start_time),
     end |-> TimeStr(session.end_time),
     date |-> session.date]

NoMessage == [kind |-> "none"]

\* (the ordering test with > instead of >=: a submission whose end equals
\* its start goes on to the conflict scan)
SessionForm_clean_gt(store, cleaned, pk) ==
    IF /\ Truthy(cleaned.start_time) /\ Truthy(cleaned.end_time)
       /\ cleaned.start_time > cleaned.end_time
    THEN {[error |-> "end_time", msg |-> [kind |-> "End time must be after start time."]]}
    ELSE IF /\ Truthy(cleaned.teacher) /\ Truthy(cleaned.date)
            /\ Truthy(cleaned.start_time) /\ Truthy(cleaned.end_time)
            /\ FirstOverlap(FormQuery(store, cleaned, pk),
                            cleaned.start_time, cleaned.end_time) # {}
    THEN {[error |-> "conflict", msg |-> FormMessage(cleaned, s)] :
            s \in FirstOverlap(FormQuery(store, cleaned, pk),
                               cleaned.start_time, cleaned.end_time)}
    ELSE {[error |-> "none", msg |-> NoMessage]}

\* clean(): the outcomes it can end with, each [error, msg]
\*   "end_time"  the ValidationError on end_time
\*   "conflict"  the ValidationError of the conflict scan
\*   "none"      cleaned_data is returned
SessionForm_clean(store, cleaned, pk) ==
    IF /\ Truthy(cleaned.start_time) /\ Truthy(cleaned.end_time)
       /\ cleaned.start_time >= cleaned.end_time
    THEN {[error |-> "end_time", msg |-> [kind |-> "End time must be after start time."]]}
    ELSE IF /\ Truthy(cleaned.teacher) /\ Truthy(cleaned.date)
            /\ Truthy(cleaned.start_time) /\ Truthy(cleaned.end_time)
            /\ FirstOverlap(FormQuery(store, cleaned, pk),
                            cleaned.start_time, cleaned.end_time) # {}
    THEN {[error |-> "conflict", msg |-> FormMessage(cleaned, s)] :
            s \in FirstOverlap(FormQuery(store, cleaned, pk),
                               cleaned.start_time, cleaned.end_time)}
    ELSE {[error |-> "none", msg |-> NoMessage]}

\* clean(): the rows the loop `for session in conflicts` iterates over; none
\* when the ValidationError on end_time is raised first or the guard of the
\* scan is false
FormScanned(store, cleaned, pk) ==
    IF /\ Truthy(cleaned.start_time) /\ Truthy(cleaned.end_time)
       /\ cleaned.start_time >= cleaned.end_time
    THEN {}
    ELSE IF /\ Truthy(cleaned.teacher) /\ Truthy(cleaned.date)
            /\ Truthy(cleaned.start_time) /\ Truthy(cleaned.end_time)
    THEN FormQuery(store, cleaned, pk)
    ELSE {}

\* form.is_valid(): the outcomes of full_clean(), each [valid, error, msg];
\* clean() runs also when a field failed
SessionForm_is_valid(store, tchrs, data, pk) ==
    LET cleaned == CleanedData(tchrs, data)
    IN  {[valid |-> FieldErrors(cleaned) = {} /\ r.error = "none",
          error |-> IF r.error # "none" THEN r.error
                    ELSE IF FieldErrors(cleaned) # {} THEN "field" ELSE "none",
          msg |-> r.msg] : r \in SessionForm_clean(store, cleaned, pk)}

\* form.save() on the instance: the row written.  duration is not a form
\* field: a new instance has none, an edited one keeps its own
SavedRow(instance, data) ==
    [id |-> instance.id, teacher |-> data.teacher, subject |-> data.subject,
     date |-> data.date, day_of_week |-> data.day_of_week,
     start_time |-> data.start_time, end_time |-> data.end_time,
     duration |-> instance.duration, status |-> data.status]

(***************************************************************************)
(* Model.save(): the table and the pk sequence after saving `row`.         *)
(* duration is NOT NULL without a default: a row without it is refused by  *)
(* the database (IntegrityError) and nothing is written.                   *)
(***************************************************************************)
\* (a save() of an edited instance that writes a second row and leaves the
\* row it was read from in the table)
ModelSave_keeps_old_row(store, nid, row) ==
    IF row.duration = None
    THEN [sessions |-> store, nextId |-> nid, outcome |-> "IntegrityError"]
    ELSE IF row.id = None
    THEN [sessions |-> store \cup {[row EXCEPT !.id = nid]},
          nextId |-> nid + 1, outcome |-> "saved"]
    ELSE [sessions |-> store \cup {row}, nextId |-> nid, outcome |-> "saved"]

ModelSave(store, nid, row) ==
    IF row.duration = None
    THEN [sessions |-> store, nextId |-> nid, outcome |-> "IntegrityError"]
    ELSE IF row.id = None
    THEN [sessions |-> store \cup {[row EXCEPT !.id = nid]},
          nextId |-> nid + 1, outcome |-> "saved"]
    ELSE [sessions |-> {s \in store : s.id # row.id} \cup {row},
          nextId |-> nid, outcome |-> "saved"]

\* (a form_valid() that runs the conflict query again on the table as it is
\* when the row is written, and writes nothing when a row is found)
form_valid_rechecks(store, nid, instance, data) ==
    IF FirstOverlap(FormQuery(store, data, instance.id),
                    data.start_time, data.end_time) # {}
    THEN [sessions |-> store, nextId |-> nid, outcome |-> "conflict"]
    ELSE ModelSave(store, nid, SavedRow(instance, data))

\* form_valid() of the two views: super().form_valid(form) calls form.save()
form_valid(store, nid, instance, data) ==
    ModelSave(store, nid, SavedRow(instance, data))

\* (a post() that saves before it looks at the form's errors)
FormView_post_saves_first(store, nid, instance, data, r) ==
    LET saved == ModelSave(store, nid, SavedRow(instance, data))
    IN  IF r.valid THEN saved ELSE [saved EXCEPT !.outcome = r.error]

\* ProcessFormView.post() of SessionCreateView / SessionUpdateView with the
\* outcome r of form.is_valid(): form_valid() saves, form_invalid() renders
\* the form again with its errors
FormView_post(store, nid, instance, data, r) ==
    IF r.valid
    THEN form_valid(store, nid, instance, data)
    ELSE [sessions |-> store, nextId |-> nid, outcome |-> r.error]

(***************************************************************************)
(* check_session_conflicts (views.py).  A request is                       *)
(* [method, teacher_id, day_of_week, start_time, end_time, exclude_id];    *)
(* a parameter that is absent is the empty string (both are falsy).        *)
(***************************************************************************)
\* (the query without status='scheduled')
AjaxQueryAnyStatus(store, req) ==
    LET base == {s \in store : /\ s.teacher = ToInt(req.teacher_id)
                               /\ s.day_of_week = req.day_of_week}
    IN  IF TruthyStr(req.exclude_id)
        THEN ExcludePk(base, ToInt(req.exclude_id))
        ELSE base

AjaxQuery(store, req) ==
    LET base == {s \in store : /\ s.teacher = ToInt(req.teacher_id)
                               /\ s.day_of_week = req.day_of_week
                               /\ s.status = "scheduled"}
    IN  IF TruthyStr(req.exclude_id)
        THEN ExcludePk(base, ToInt(req.exclude_id))
        ELSE base

AjaxMessage(session) ==
    [kind |-> "Conflict with",
     subject |-> SubjectName(session.subject),
     start |-> TimeStr(session.start_time),
     end |-> TimeStr(session.end_time)]

JsonResponse(has_conflict, msg) == [has_conflict |-> has_conflict, msg |-> msg]

\* (the try block closed after the two strptime calls: the ValueError of a
\* non-numeric id in filter() / exclude() leaves the view unhandled)
check_session_conflicts_narrow_try(store, req) ==
    IF req.method # "GET"
    THEN {JsonResponse(FALSE, [kind |-> "Invalid request"])}
    ELSE IF ~(/\ TruthyStr(req.teacher_id) /\ req.day_of_week # ""
              /\ TruthyStr(req.start_time) /\ TruthyStr(req.end_time))
    THEN {JsonResponse(FALSE, [kind |-> "Incomplete data"])}
    ELSE IF \/ strptime_HM(req.start_time) = ValueError
            \/ strptime_HM(req.end_time) = ValueError
    THEN {JsonResponse(FALSE, [kind |-> "str(e)",
                               e |-> "time data does not match format '%H:%M'"])}
    ELSE IF \/ ToInt(req.teacher_id) = ValueError
            \/ TruthyStr(req.exclude_id) /\ ToInt(req.exclude_id) = ValueError
    THEN {JsonResponse(FALSE, [kind |-> "Server Error (500)"])}
    ELSE LET start == strptime_HM(req.start_time)
             end == strptime_HM(req.end_time)
             first == FirstOverlap(AjaxQuery(store, req), start, end)
         IN  IF first # {}
             THEN {JsonResponse(TRUE, AjaxMessage(s)) : s \in first}
             ELSE {JsonResponse(FALSE, [kind |-> "No conflicts found"])}

\* the responses the view can give to req (several when rows tie in order);
\* every exception raised inside the try block (strptime's ValueError, the
\* ValueError of a non-numeric id in filter() / exclude()) is caught and
\* answered with has_conflict False and str(e)
check_session_conflicts(store, req) ==
    IF req.method # "GET"
    THEN {JsonResponse(FALSE, [kind |-> "Invalid request"])}
    ELSE IF ~(/\ TruthyStr(req.teacher_id) /\ req.day_of_week # ""
              /\ TruthyStr(req.start_time) /\ TruthyStr(req.end_time))
    THEN {JsonResponse(FALSE, [kind |-> "Incomplete data"])}
    ELSE IF \/ strptime_HM(req.start_time) = ValueError
            \/ strptime_HM(req.end_time) = ValueError
    THEN {JsonResponse(FALSE, [kind |-> "str(e)",
                               e |-> "time data does not match format '%H:%M'"])}
    ELSE IF \/ ToInt(req.teacher_id) = ValueError
            \/ TruthyStr(req.exclude_id) /\ ToInt(req.exclude_id) = ValueError
    THEN {JsonResponse(FALSE, [kind |-> "str(e)",
                               e |-> "Field 'id' expected a number"])}
    ELSE LET start == strptime_HM(req.start_time)
             end == strptime_HM(req.end_time)
             first == FirstOverlap(AjaxQuery(store, req), start, end)
         IN  IF first # {}
             THEN {JsonResponse(TRUE, AjaxMessage(s)) : s \in first}
             ELSE {JsonResponse(FALSE, [kind |-> "No conflicts found"])}

\* the rows the loop `for session in conflicts` of the view iterates over;
\* none when the view returns or raises before the loop
AjaxScanned(store, req) ==
    IF req.method # "GET"
    THEN {}
    ELSE IF ~(/\ TruthyStr(req.teacher_id) /\ req.day_of_week # ""
              /\ TruthyStr(req.start_time) /\ TruthyStr(req.end_time))
    THEN {}
    ELSE IF \/ strptime_HM(req.start_time) = ValueError
            \/ strptime_HM(req.end_time) = ValueError
    THEN {}
    ELSE IF \/ ToInt(req.teacher_id) = ValueError
            \/ TruthyStr(req.exclude_id) /\ ToInt(req.exclude_id) = ValueError
    THEN {}
    ELSE AjaxQuery(store, req)

(***************************************************************************)
(* The seeding commands (management/commands).                             *)
(***************************************************************************)
\* timezone.now().date() of the run: a Monday
Today == 0

\* the string 'HH:00'
HourStr(h) == <<DigitChars[(h \div 10) + 1], DigitChars[(h % 10) + 1], ":", "0", "0">>

\* create_dummy_data: time_slots, each (start, end, duration in hours)
DummyTimeSlots ==
    << <<HourStr(8), HourStr(9), 1>>,   <<HourStr(9), HourStr(10), 1>>,
       <<HourStr(10), HourStr(11), 1>>, <<HourStr(11), HourStr(12), 1>>,
       <<HourStr(12), HourStr(13), 1>>, <<HourStr(14), HourStr(15), 1>>,
       <<HourStr(15), HourStr(16), 1>>, <<HourStr(16), HourStr(17), 1>>,
       <<HourStr(17), HourStr(18), 1>>, <<HourStr(9), HourStr(11), 2>>,
       <<HourStr(14), HourStr(16), 2>> >>

\* create_teacher_sessions: time_slots
TeacherTimeSlots ==
    << <<HourStr(8), HourStr(9), 1>>,   <<HourStr(9), HourStr(10), 1>>,
       <<HourStr(10), HourStr(11), 1>>, <<HourStr(11), HourStr(12), 1>>,
       <<HourStr(14), HourStr(15), 1>>, <<HourStr(15), HourStr(16), 1>>,
       <<HourStr(16), HourStr(17), 1>>, <<HourStr(9), HourStr(11), 2>>,
       <<HourStr(14), HourStr(16), 2>> >>

\* the slots of a list that lie within the model's clock times
SlotChoices(slots) ==
    {i \in DOMAIN slots : /\ strptime_HM(slots[i][1]) \in Times
                          /\ strptime_HM(slots[i][2]) \in Times}

\* days_map[day]
days_map(day) == (CHOOSE i \in DOMAIN DAYS_OF_WEEK : DAYS_OF_WEEK[i] = day) - 1

\* session_date = today + timedelta(days=days_ahead + random.randint(0, k))
SessionDate(day, offset) ==
    LET days_ahead == days_map(day) - Weekday(Today)
    IN  Today + (IF days_ahead <= 0 THEN days_ahead + 7 ELSE days_ahead) + offset

\* the status a seeded session is given
SeedStatuses == {"scheduled", "completed"}

\* Session.objects.filter(teacher, date, status='scheduled')
\*                .filter(start_time__lt=end_time, end_time__gt=start_time)
\* (the filter with __lte / __gte: adjacent rows would be found)
existing_conflicts_lte(store, teacher, date, start_time, end_time) ==
    {s \in store : /\ s.teacher = teacher /\ s.date = date
                   /\ s.status = "scheduled"
                   /\ s.start_time <= end_time /\ s.end_time >= start_time}

\* (the two lookups with their arguments exchanged: start_time__lt=start_time,
\* end_time__gt=end_time, which finds only rows that strictly contain the slot)
existing_conflicts_swapped(store, teacher, date, start_time, end_time) ==
    {s \in store : /\ s.teacher = teacher /\ s.date = date
                   /\ s.status = "scheduled"
                   /\ s.start_time < start_time /\ s.end_time > end_time}

\* (the filter without status='scheduled': a completed row would be found)
existing_conflicts_any_status(store, teacher, date, start_time, end_time) ==
    {s \in store : /\ s.teacher = teacher /\ s.date = date
                   /\ s.start_time < end_time /\ s.end_time > start_time}

existing_conflicts(store, teacher, date, start_time, end_time) ==
    {s \in store : /\ s.teacher = teacher /\ s.date = date
                   /\ s.status = "scheduled"
                   /\ s.start_time < end_time /\ s.end_time > start_time}

\* one pass through the body of the seeding loop with the random draws given:
\* `continue` on a conflict, else build the Session and save it
SeedIteration(store, nid, teacher, subject, day, slot, offset, status) ==
    LET start_time == strptime_HM(slot[1])
        end_time == strptime_HM(slot[2])
        session_date == SessionDate(day, offset)
    IN  IF existing_conflicts(store, teacher, session_date, start_time, end_time) # {}
        THEN [sessions |-> store, nextId |-> nid, outcome |-> "skipped"]
        ELSE ModelSave(store, nid,
                 [id |-> None, teacher |-> teacher, subject |-> subject,
                  date |-> session_date, day_of_week |-> day,
                  start_time |-> start_time, end_time |-> end_time,
                  duration |-> slot[3], status |-> status])

(***************************************************************************)
(* The inputs the model draws from.                                        *)
(***************************************************************************)
FormDates == {SessionDate(d, o) : d \in SeedDays, o \in SeedOffsets}
FormDays == SeedDays
FormStatuses == {"scheduled", "cancelled"}

\* submitted forms whose teacher is the pk of no Teacher row
UnknownTeacherForms ==
    {[teacher |-> 9, subject |-> j, date |-> d, day_of_week |-> "monday",
      start_time |-> 480, end_time |-> 540, status |-> "scheduled"] :
        j \in SubjectIds, d \in FormDates}

\* the submitted forms: every field given, or the start time missing or
\* malformed, or the teacher unknown
FormInputs ==
    {[teacher |-> t, subject |-> j, date |-> d, day_of_week |-> w,
      start_time |-> b, end_time |-> e, status |-> st] :
        t \in TeacherIds, j \in SubjectIds, d \in FormDates, w \in FormDays,
        b \in Times \cup {None}, e \in Times, st \in FormStatuses}
    \cup UnknownTeacherForms

\* 'HH:MM' as the time input of the page sends it
FormatHM(t) ==
    <<DigitChars[(t \div 600) + 1], DigitChars[((t \div 60) % 10) + 1], ":",
      DigitChars[((t % 60) \div 10) + 1], DigitChars[(t % 10) + 1]>>

IdStr(n) == <<DigitChars[n + 1]>>

Request(method, teacher_id, day_of_week, start_time, end_time, exclude_id) ==
    [method |-> method, teacher_id |-> teacher_id, day_of_week |-> day_of_week,
     start_time |-> start_time, end_time |-> end_time, exclude_id |-> exclude_id]

\* the day names a request carries: the stored ones and the weekdays of the dates
DayParams == FormDays \cup {DAYS_OF_WEEK[Weekday(d) + 1] : d \in FormDates}

\* the requests with every parameter well formed
GoodRequests ==
    {Request("GET", IdStr(t), w, FormatHM(b), FormatHM(e), x) :
        t \in TeacherIds, w \in DayParams, b \in Times, e \in Times,
        x \in {IdStr(n) : n \in 1..MaxSessions} \cup {<<>>}}

\* a request that is not a GET, and requests with one parameter missing or
\* malformed
BadRequests ==
    LET t == IdStr(1)
        w == "monday"
        b == FormatHM(480)
        e == FormatHM(540)
    IN  {Request("POST", t, w, b, e, <<>>),
         Request("GET", <<>>, w, b, e, <<>>),
         Request("GET", t, "", b, e, <<>>),
         Request("GET", t, w, <<>>, e, <<>>),
         Request("GET", t, w, b, <<"9", "a", "m">>, <<>>),
         Request("GET", t, w, b, <<"0", "9", "0", "0">>, <<>>),
         Request("GET", <<"x">>, w, b, e, <<>>),
         Request("GET", IdStr(9), w, b, e, <<>>),
         Request("GET", t, w, b, e, <<"x">>)}

AjaxRequests == GoodRequests \cup BadRequests

(***************************************************************************)
(* The state machine.                                                      *)
(***************************************************************************)
Idle == [cmd |-> "none"]

Response(op, outcome, pk, msg) ==
    [op |-> op, outcome |-> outcome, pk |-> pk, msg |-> msg]

\* no request or command is being answered
Quiet == Response("none", "none", None, NoMessage)

\* the Teacher table: every teacher active, or teacher 2 on leave
TeacherTables ==
    {[t \in TeacherIds |-> "active"],
     [t \in TeacherIds |-> IF t = 2 THEN "on_leave" ELSE "active"]}

Init ==
    /\ sessions = {}
    /\ teachers \in TeacherTables
    /\ nextId = 1
    /\ seed = Idle
    /\ last = Quiet
    /\ inflight = {}

\* the pks still free for this run of the model
FreePks == MaxSessions - nextId + 1

\* the rows of a set of pks in pk order
RECURSIVE InPkOrder(_)
InPkOrder(S) ==
    IF S = {} THEN <<>>
    ELSE LET m == CHOOSE x \in S : \A y \in S : x <= y
         IN  <<m>> \o InPkOrder(S \ {m})

\* Subject.teachers: subject 1 is assigned to teacher 1, nothing else
SubjectTeachers(s) == IF s = 1 THEN {1} ELSE {}

\* create_sessions_per_teacher: the subjects a teacher's sessions draw from
SubjectsFor(teacher) ==
    LET assigned == {s \in SubjectIds : teacher \in SubjectTeachers(s)}
    IN  IF assigned = {} THEN SubjectIds ELSE assigned

\* max_attempts = sessions_per_teacher * 3
AttemptsFactor == 3

(* create_dummy_data.Command.create_sessions(count): entry *)
StartCreateSessions(count) ==
    /\ seed = Idle
    /\ last = Quiet
    /\ count <= FreePks
    /\ IF ActiveTeachers(teachers) = {}
       THEN /\ seed' = Idle
            /\ last' = Response("create_sessions", "no teachers", None, NoMessage)
       ELSE /\ seed' = [cmd |-> "create_sessions",
                        teachers |-> ActiveTeachers(teachers),
                        count |-> count, i |-> 0, created_count |-> 0]
            /\ last' = Response("create_sessions", "started", None, NoMessage)
    /\ UNCHANGED <<sessions, teachers, nextId, inflight>>

(* create_sessions: one iteration of `for i in range(count)` *)
CreateSessionsStep ==
    /\ seed.cmd = "create_sessions"
    /\ seed.i < seed.count
    /\ \E teacher \in seed.teachers, subject \in SubjectIds, day \in SeedDays,
          k \in SlotChoices(DummyTimeSlots), offset \in SeedOffsets,
          status \in SeedStatuses :
          LET r == SeedIteration(sessions, nextId, teacher, subject, day,
                                 DummyTimeSlots[k], offset, status)
          IN  /\ sessions' = r.sessions
              /\ nextId' = r.nextId
              /\ seed' = [seed EXCEPT !.i = @ + 1,
                            !.created_count = IF r.outcome = "saved" THEN @ + 1 ELSE @]
              /\ last' = Response("create_sessions", r.outcome, None, NoMessage)
    /\ UNCHANGED <<teachers, inflight>>

(* create_sessions: the loop is over, the count is printed *)
CreateSessionsDone ==
    /\ seed.cmd = "create_sessions"
    /\ seed.i = seed.count
    /\ seed' = Idle
    /\ last' = Response("create_sessions", "done", None,
                        [kind |-> "Created", count |-> seed.created_count])
    /\ UNCHANGED <<sessions, teachers, nextId, inflight>>

(* create_teacher_sessions.Command.create_sessions_per_teacher(n): entry *)
StartSessionsPerTeacher(n) ==
    /\ seed = Idle
    /\ last = Quiet
    /\ n * Cardinality(ActiveTeachers(teachers)) <= FreePks
    /\ IF ActiveTeachers(teachers) = {}
       THEN /\ seed' = Idle
            /\ last' = Response("create_sessions_per_teacher", "no teachers",
                                None, NoMessage)
       ELSE /\ seed' = [cmd |-> "create_sessions_per_teacher",
                        queue |-> InPkOrder(ActiveTeachers(teachers)),
                        sessions_per_teacher |-> n,
                        created_for_teacher |-> 0, attempts |-> 0,
                        total_sessions |-> 0]
            /\ last' = Response("create_sessions_per_teacher", "started",
                                None, NoMessage)
    /\ UNCHANGED <<sessions, teachers, nextId, inflight>>

\* (the while condition without the bound on attempts)
PerTeacherLoopCondition_unbounded ==
    seed.created_for_teacher < seed.sessions_per_teacher

\* while created_for_teacher < sessions_per_teacher and attempts < max_attempts
PerTeacherLoopCondition ==
    /\ seed.created_for_teacher < seed.sessions_per_teacher
    /\ seed.attempts < seed.sessions_per_teacher * AttemptsFactor

(* create_sessions_per_teacher: one iteration of the while loop *)
SessionsPerTeacherStep ==
    /\ seed.cmd = "create_sessions_per_teacher"
    /\ seed.queue # <<>>
    /\ PerTeacherLoopCondition
    /\ LET teacher == Head(seed.queue)
       IN  \E subject \in SubjectsFor(teacher), day \in SeedDays,
              k \in SlotChoices(TeacherTimeSlots), offset \in SeedOffsets,
              status \in SeedStatuses :
              LET r == SeedIteration(sessions, nextId, teacher, subject, day,
                                     TeacherTimeSlots[k], offset, status)
                  made == IF r.outcome = "saved" THEN 1 ELSE 0
              IN  /\ sessions' = r.sessions
                  /\ nextId' = r.nextId
                  /\ seed' = [seed EXCEPT !.attempts = @ + 1,
                                !.created_for_teacher = @ + made,
                                !.total_sessions = @ + made]
                  /\ last' = Response("create_sessions_per_teacher", r.outcome,
                                      None, NoMessage)
    /\ UNCHANGED <<teachers, inflight>>

(* create_sessions_per_teacher: the while loop of a teacher is over *)
SessionsPerTeacherNext ==
    /\ seed.cmd = "create_sessions_per_teacher"
    /\ seed.queue # <<>>
    /\ ~PerTeacherLoopCondition
    /\ seed' = [seed EXCEPT !.queue = Tail(@), !.created_for_teacher = 0,
                            !.attempts = 0]
    /\ last' = Response("create_sessions_per_teacher", "teacher done",
                        Head(seed.queue),
                        [kind |-> "Created", count |-> seed.created_for_teacher])
    /\ UNCHANGED <<sessions, teachers, nextId, inflight>>

(* create_sessions_per_teacher: the for loop is over, the total is printed *)
SessionsPerTeacherDone ==
    /\ seed.cmd = "create_sessions_per_teacher"
    /\ seed.queue = <<>>
    /\ seed' = Idle
    /\ last' = Response("create_sessions_per_teacher", "done", None,
                        [kind |-> "Created", count |-> seed.total_sessions])
    /\ UNCHANGED <<sessions, teachers, nextId, inflight>>

\* the instance a view hands to the form: a new Session(), or the stored row
NewInstance == [id |-> None, duration |-> None]

(* SessionCreateView: POST of the form *)
SessionCreate(data) ==
    /\ seed = Idle
    /\ last = Quiet
    /\ \E r \in SessionForm_is_valid(sessions, teachers, data, NewInstance.id) :
          LET done == FormView_post(sessions, nextId, NewInstance, data, r)
          IN  /\ sessions' = done.sessions
              /\ nextId' = done.nextId
              /\ last' = Response("create", done.outcome, None, r.msg)
    /\ UNCHANGED <<teachers, seed, inflight>>

(* SessionUpdateView: POST of the form for the session pk *)
SessionUpdate(pk, data) ==
    /\ seed = Idle
    /\ last = Quiet
    /\ IF \E s \in sessions : s.id = pk
       THEN LET instance == CHOOSE s \in sessions : s.id = pk
            IN  \E r \in SessionForm_is_valid(sessions, teachers, data, instance.id) :
                   LET done == FormView_post(sessions, nextId, instance, data, r)
                   IN  /\ sessions' = done.sessions
                       /\ nextId' = done.nextId
                       /\ last' = Response("update", done.outcome, pk, r.msg)
       ELSE /\ last' = Response("update", "404", pk, NoMessage)
            /\ UNCHANGED <<sessions, nextId>>
    /\ UNCHANGED <<teachers, seed, inflight>>

(* SessionDeleteView: POST for the session pk *)
SessionDelete(pk) ==
    /\ seed = Idle
    /\ last = Quiet
    /\ IF \E s \in sessions : s.id = pk
       THEN /\ sessions' = {s \in sessions : s.id # pk}
            /\ last' = Response("delete", "deleted", pk, NoMessage)
       ELSE /\ last' = Response("delete", "404", pk, NoMessage)
            /\ UNCHANGED sessions
    /\ UNCHANGED <<teachers, nextId, seed, inflight>>

(* check_session_conflicts: one request *)
CheckSessionConflicts(req) ==
    /\ seed = Idle
    /\ last = Quiet
    /\ \E resp \in check_session_conflicts(sessions, req) :
          last' = Response("check_session_conflicts",
                           IF resp.has_conflict THEN "conflict" ELSE "none",
                           IF AllDigits(req.exclude_id) THEN ToInt(req.exclude_id)
                           ELSE None,
                           resp.msg)
    /\ UNCHANGED <<sessions, teachers, nextId, seed, inflight>>

(* (an is_conflicting that sets the status of a conflicting session to
   'rescheduled' and saves it) *)
ReadIsConflicting_marks(pk) ==
    /\ seed = Idle
    /\ last = Quiet
    /\ \E self \in sessions :
          /\ self.id = pk
          /\ last' = Response("is_conflicting",
                              IF is_conflicting(sessions, self) THEN "conflict"
                              ELSE "none", pk, NoMessage)
          /\ sessions' = IF is_conflicting(sessions, self)
                         THEN (sessions \ {self})
                                  \cup {[self EXCEPT !.status = "rescheduled"]}
                         ELSE sessions
    /\ UNCHANGED <<teachers, nextId, seed, inflight>>

(* Session.is_conflicting read on the stored session pk *)
ReadIsConflicting(pk) ==
    /\ seed = Idle
    /\ last = Quiet
    /\ \E self \in sessions :
          /\ self.id = pk
          /\ last' = Response("is_conflicting",
                              IF is_conflicting(sessions, self) THEN "conflict"
                              ELSE "none", pk, NoMessage)
    /\ UNCHANGED <<sessions, teachers, nextId, seed, inflight>>

(* the response has been sent (the command's output written): the next
   request or command can be served *)
Respond ==
    /\ seed = Idle
    /\ last # Quiet
    /\ last' = Quiet
    /\ UNCHANGED <<sessions, teachers, nextId, seed, inflight>>

(***************************************************************************)
(* Requests served by several workers: post() of a form view is two steps, *)
(* form.is_valid() and then form_valid(), and the steps of two requests    *)
(* may interleave.  No lock is taken and no transaction spans the steps.   *)
(***************************************************************************)
\* the submissions of the interleaved requests: teacher 1, scheduled, on the
\* first of the dates, with start before end
RaceForms ==
    {f \in FormInputs : /\ f.teacher = 1 /\ f.status = "scheduled"
                        /\ f.date = SessionDate("monday", 0)
                        /\ f.start_time # None
                        /\ f.start_time < f.end_time}

ViewOf(pk) == IF pk = None THEN "create" ELSE "update"

(* post(), first step: get_object() and form.is_valid().  A valid form goes
   on to form_valid(); an invalid one is rendered again with its errors *)
PostValidate(pk, data) ==
    /\ seed = Idle
    /\ last = Quiet
    /\ Cardinality(inflight) < MaxInflight
    /\ pk # None => \E s \in sessions : s.id = pk
    /\ LET row == CHOOSE s \in sessions : s.id = pk
           instance == IF pk = None THEN NewInstance
                       ELSE [id |-> row.id, duration |-> row.duration]
       IN  \E r \in SessionForm_is_valid(sessions, teachers, data, instance.id) :
              IF r.valid
              THEN /\ inflight' = inflight \cup
                          {[pk |-> pk, instance |-> instance, data |-> data]}
                   /\ UNCHANGED last
              ELSE /\ last' = Response(ViewOf(pk), r.error, pk, r.msg)
                   /\ UNCHANGED inflight
    /\ UNCHANGED <<sessions, teachers, nextId, seed>>

(* post(), second step: form_valid() saves the instance validated earlier *)
PostSave(pk, data) ==
    /\ seed = Idle
    /\ last = Quiet
    /\ \E sub \in inflight :
          /\ sub.pk = pk /\ sub.data = data
          /\ LET done == form_valid(sessions, nextId, sub.instance, sub.data)
             IN  /\ sessions' = done.sessions
                 /\ nextId' = done.nextId
                 /\ last' = Response(ViewOf(pk), done.outcome, pk, NoMessage)
          /\ inflight' = inflight \ {sub}
    /\ UNCHANGED <<teachers, seed>>

Next ==
    \/ \E count \in 1..MaxCount : StartCreateSessions(count)
    \/ CreateSessionsStep
    \/ CreateSessionsDone
    \/ \E n \in 1..MaxCount : StartSessionsPerTeacher(n)
    \/ SessionsPerTeacherStep
    \/ SessionsPerTeacherNext
    \/ SessionsPerTeacherDone
    \/ \E data \in FormInputs : SessionCreate(data)
    \/ \E pk \in 1..MaxSessions, data \in FormInputs : SessionUpdate(pk, data)
    \/ \E pk \in 1..MaxSessions : SessionDelete(pk)
    \/ \E req \in AjaxRequests : CheckSessionConflicts(req)
    \/ \E pk \in 1..MaxSessions : ReadIsConflicting(pk)
    \/ Respond

Spec == Init /\ [][Next]_vars

\* the table filled by create_sessions and edited by interleaved requests
NextInterleaved ==
    \/ \E count \in 1..MaxCount : StartCreateSessions(count)
    \/ CreateSessionsStep
    \/ CreateSessionsDone
    \/ \E pk \in (1..MaxSessions) \cup {None}, data \in RaceForms :
          PostValidate(pk, data)
    \/ \E pk \in (1..MaxSessions) \cup {None}, data \in RaceForms :
          PostSave(pk, data)
    \/ Respond

SpecInterleaved == Init /\ [][NextInterleaved]_vars

(***************************************************************************)
(* The staff office: teachers change status through TeacherUpdateView      *)
(* while sessions are seeded, scheduled and edited, the requests served    *)
(* one after the other.                                                    *)
(***************************************************************************)
\* the submissions of the staff office: scheduled, on the first of the
\* dates, with start before end
StaffForms ==
    {f \in FormInputs : /\ f.teacher \in TeacherIds /\ f.status = "scheduled"
                        /\ f.date = SessionDate("monday", 0)
                        /\ f.start_time # None
                        /\ f.start_time < f.end_time}

(* TeacherUpdateView: POST of TeacherForm for teacher t with the given status *)
TeacherUpdate(t, status) ==
    /\ seed = Idle
    /\ last = Quiet
    /\ teachers[t] # status
    /\ teachers' = [teachers EXCEPT ![t] = status]
    /\ last' = Response("teacher_update", "saved", t, NoMessage)
    /\ UNCHANGED <<sessions, nextId, seed, inflight>>

NextStaff ==
    \/ \E count \in 1..MaxCount : StartCreateSessions(count)
    \/ CreateSessionsStep
    \/ CreateSessionsDone
    \/ \E n \in 1..MaxCount : StartSessionsPerTeacher(n)
    \/ SessionsPerTeacherStep
    \/ SessionsPerTeacherNext
    \/ SessionsPerTeacherDone
    \/ \E t \in TeacherIds, status \in TEACHER_STATUS : TeacherUpdate(t, status)
    \/ \E data \in StaffForms : SessionCreate(data)
    \/ \E pk \in 1..MaxSessions, data \in StaffForms : SessionUpdate(pk, data)
    \/ Respond

SpecStaff == Init /\ [][NextStaff]_vars

(***************************************************************************)
(* The seeding commands run to their end: a command is one process that    *)
(* executes its loop without waiting for anything, so each of its steps is *)
(* taken when it is enabled.                                               *)
(***************************************************************************)
NextSeeding ==
    \/ \E count \in 1..MaxCount : StartCreateSessions(count)
    \/ CreateSessionsStep
    \/ CreateSessionsDone
    \/ \E n \in 1..MaxCount : StartSessionsPerTeacher(n)
    \/ SessionsPerTeacherStep
    \/ SessionsPerTeacherNext
    \/ SessionsPerTeacherDone
    \/ Respond

SpecSeeding ==
    /\ Init
    /\ [][NextSeeding]_vars
    /\ WF_vars(CreateSessionsStep)
    /\ WF_vars(CreateSessionsDone)
    /\ WF_vars(SessionsPerTeacherStep)
    /\ WF_vars(SessionsPerTeacherNext)
    /\ WF_vars(SessionsPerTeacherDone)

(***************************************************************************)
(* Vocabulary of the properties.                                           *)
(***************************************************************************)
\* a request can be served: no command runs, no response is pending
Serving == seed = Idle /\ last = Quiet

Pks == 1..MaxSessions

\* a proposed session: teacher, date and a well-formed interval
Proposals ==
    {p \in [teacher : TeacherIds, date : FormDates,
             start_time : Times, end_time : Times] : p.start_time < p.end_time}

\* the name of the weekday of a date
DayName(d) == DAYS_OF_WEEK[Weekday(d) + 1]

\* half-open intervals [s1, e1) and [s2, e2) intersect
Intersect(s1, e1, s2, e2) == s1 < e2 /\ s2 < e1

\* the sessions that conflict with proposal p when pk is the session edited
ConflictingWith(store, p, pk) ==
    {s \in store : /\ s.teacher = p.teacher /\ s.date = p.date
                   /\ s.status = "scheduled" /\ s.id # pk
                   /\ Intersect(p.start_time, p.end_time, s.start_time, s.end_time)}

\* the proposal as a form submission with the given status and day name
AsForm(p, day, status) ==
    [teacher |-> p.teacher, subject |-> CHOOSE j \in SubjectIds : TRUE,
     date |-> p.date, day_of_week |-> day,
     start_time |-> p.start_time, end_time |-> p.end_time, status |-> status]

\* the proposal as a request to the endpoint, the session pk excluded
AsRequest(p, day, pk) ==
    Request("GET", IdStr(p.teacher), day, FormatHM(p.start_time),
            FormatHM(p.end_time), IF pk = None THEN <<>> ELSE IdStr(pk))

\* the form rejects the submission with the conflict error
FormConflict(store, data, pk) ==
    \E r \in SessionForm_is_valid(store, teachers, data, pk) : r.error = "conflict"

\* the endpoint answers has_conflict = true
AjaxConflict(store, req) ==
    \E resp \in check_session_conflicts(store, req) : resp.has_conflict

\* the seeders' filter finds a row
SeederConflict(store, p) ==
    existing_conflicts(store, p.teacher, p.date, p.start_time, p.end_time) # {}

(***************************************************************************)
(* C1: SessionForm validation of a submission with teacher, date and       *)
(* start_time < end_time present reports the conflict error if and only if *)
(* the store holds a scheduled session of the same teacher on the same     *)
(* date, other than the instance edited, whose interval intersects the     *)
(* submitted one; with no such session every outcome is conflict-free.     *)
(***************************************************************************)
C1_FormConflictIffCandidate ==
    Serving =>
        \A p \in Proposals, pk \in Pks \cup {None}, st \in FormStatuses :
            LET outs == SessionForm_is_valid(sessions, teachers,
                                             AsForm(p, DayName(p.date), st), pk)
            IN  p.teacher \in ActiveTeachers(teachers) =>
                    IF ConflictingWith(sessions, p, pk) # {}
                    THEN \A r \in outs : r.error = "conflict" /\ ~r.valid
                    ELSE \A r \in outs : r.error = "none" /\ r.valid

\* a submission has just been rejected for a conflict with a stored session
C1_Witness ==
    /\ last.op \in {"create", "update"}
    /\ last.outcome = "conflict"
    /\ \E s \in sessions : s.status = "scheduled" /\ s.id # last.pk

(***************************************************************************)
(* C2: for every store and every proposal (teacher, date with its weekday, *)
(* interval, excluded id) the endpoint check_session_conflicts answers     *)
(* has_conflict = true exactly when SessionForm validation of the same     *)
(* proposal raises the conflict error.                                     *)
(***************************************************************************)
C2_EndpointAgreesWithForm ==
    Serving =>
        \A p \in Proposals, pk \in Pks \cup {None} :
            AjaxConflict(sessions, AsRequest(p, DayName(p.date), pk))
                <=> FormConflict(sessions, AsForm(p, DayName(p.date), "scheduled"), pk)

(***************************************************************************)
(* C3: at every call site (form, endpoint, is_conflicting, the seeders'    *)
(* filter) a stored session whose date differs from the proposal's date    *)
(* never causes a conflict: the answer is the one the sessions of that     *)
(* date alone give.                                                        *)
(***************************************************************************)
OnDate(store, d) == {s \in store : s.date = d}

C3_OtherDateNeverConflicts ==
    Serving =>
        /\ \A p \in Proposals, pk \in Pks \cup {None} :
              LET day == DayName(p.date)
                  same == OnDate(sessions, p.date)
              IN  /\ FormConflict(sessions, AsForm(p, day, "scheduled"), pk)
                        <=> FormConflict(same, AsForm(p, day, "scheduled"), pk)
                  /\ AjaxConflict(sessions, AsRequest(p, day, pk))
                        <=> AjaxConflict(same, AsRequest(p, day, pk))
                  /\ SeederConflict(sessions, p) <=> SeederConflict(same, p)
        /\ \A self \in sessions :
              is_conflicting(sessions, self)
                  <=> is_conflicting(OnDate(sessions, self.date), self)

(***************************************************************************)
(* C4: adjacency is not a conflict.  At every call site, a proposal whose  *)
(* start equals the end (or whose end equals the start) of a scheduled     *)
(* session x of the same teacher on the same date, and which intersects no *)
(* other candidate the call site fetches, is reported as no conflict.      *)
(***************************************************************************)
Adjacent(p, x) ==
    /\ x.teacher = p.teacher /\ x.date = p.date /\ x.status = "scheduled"
    /\ (p.start_time = x.end_time \/ p.end_time = x.start_time)

NoneIntersects(candidates, p) ==
    \A y \in candidates :
        ~Intersect(p.start_time, p.end_time, y.start_time, y.end_time)

C4_AdjacencyIsNoConflict ==
    Serving =>
        /\ \A p \in Proposals, pk \in Pks \cup {None}, x \in sessions :
              Adjacent(p, x) =>
                LET form == AsForm(p, DayName(p.date), "scheduled")
                IN  /\ NoneIntersects(FormQuery(sessions, form, pk) \ {x}, p)
                          => ~FormConflict(sessions, form, pk)
                    /\ \A day \in DayParams :
                          NoneIntersects(AjaxQuery(sessions, AsRequest(p, day, pk)) \ {x}, p)
                              => ~AjaxConflict(sessions, AsRequest(p, day, pk))
                    /\ NoneIntersects({y \in sessions \ {x} :
                                          /\ y.teacher = p.teacher /\ y.date = p.date
                                          /\ y.status = "scheduled"}, p)
                          => ~SeederConflict(sessions, p)
        /\ \A self \in sessions, x \in sessions :
              (self.start_time < self.end_time /\ Adjacent(self, x)
               /\ NoneIntersects(IsConflictingQuery(sessions, self) \ {x}, self))
                  => ~is_conflicting(sessions, self)

\* a seeder has just inserted a session back to back with a scheduled
\* session of the same teacher on the same date
C4_Witness ==
    /\ last.op \in {"create_sessions", "create_sessions_per_teacher"}
    /\ last.outcome = "saved"
    /\ \E x \in sessions, y \in sessions :
          /\ y.id = nextId - 1 /\ x.id # y.id
          /\ Adjacent(y, x)

(***************************************************************************)
(* C5: an interval identical to that of a stored scheduled session of the  *)
(* same teacher on the same date, that session not being the excluded one, *)
(* is always reported as a conflict: by the form, by the endpoint and by   *)
(* the seeders' filter.                                                    *)
(***************************************************************************)
OwnProposal(x) ==
    [teacher |-> x.teacher, date |-> x.date,
     start_time |-> x.start_time, end_time |-> x.end_time]

C5_IdenticalIntervalConflicts ==
    Serving =>
        \A x \in sessions : \A pk \in (Pks \cup {None}) \ {x.id} :
            x.status = "scheduled" =>
                LET p == OwnProposal(x)
                    day == DayName(x.date)
                IN  /\ FormConflict(sessions, AsForm(p, day, "scheduled"), pk)
                    /\ SeederConflict(sessions, p)
                    /\ AjaxConflict(sessions, AsRequest(p, day, pk))

(***************************************************************************)
(* C6: a stored session whose status is not 'scheduled' never causes a     *)
(* conflict at any call site, whatever its teacher, date and interval: the *)
(* answer is the one the scheduled sessions alone give, and no query of a  *)
(* call site returns a session that is not scheduled (so a session whose   *)
(* status was changed away from 'scheduled' is no candidate any more).     *)
(***************************************************************************)
Scheduled(store) == {s \in store : s.status = "scheduled"}

C6_OnlyScheduledSessionsCount ==
    Serving =>
        /\ \A p \in Proposals, pk \in Pks \cup {None}, day \in DayParams :
              LET form == AsForm(p, day, "scheduled")
                  req == AsRequest(p, day, pk)
              IN  /\ FormConflict(sessions, form, pk)
                        <=> FormConflict(Scheduled(sessions), form, pk)
                  /\ AjaxConflict(sessions, req)
                        <=> AjaxConflict(Scheduled(sessions), req)
                  /\ SeederConflict(sessions, p)
                        <=> SeederConflict(Scheduled(sessions), p)
                  /\ FormQuery(sessions, form, pk) \subseteq Scheduled(sessions)
                  /\ AjaxQuery(sessions, req) \subseteq Scheduled(sessions)
                  /\ existing_conflicts(sessions, p.teacher, p.date,
                                        p.start_time, p.end_time)
                        \subseteq Scheduled(sessions)
        /\ \A self \in sessions :
              /\ is_conflicting(sessions, self)
                    <=> is_conflicting(Scheduled(sessions), self)
              /\ IsConflictingQuery(sessions, self) \subseteq Scheduled(sessions)

\* an edit has just changed session last.pk to 'cancelled' while another
\* session of the same teacher and date has an intersecting interval
C6_Witness ==
    /\ last.op = "update"
    /\ last.outcome = "saved"
    /\ \E s \in sessions, o \in sessions :
          /\ s.id = last.pk /\ s.status = "cancelled" /\ o.id # s.id
          /\ o.teacher = s.teacher /\ o.date = s.date
          /\ o.day_of_week = s.day_of_week
          /\ Intersect(o.start_time, o.end_time, s.start_time, s.end_time)

(***************************************************************************)
(* C7: two sessions conflict only when both are 'scheduled':               *)
(* Session.is_conflicting is false for a session whose own status is not   *)
(* 'scheduled', and SessionForm validation does not reject a submission    *)
(* whose own status is not 'scheduled' for a conflict.                     *)
(***************************************************************************)
C7_BothMustBeScheduled ==
    Serving =>
        /\ \A self \in sessions :
              self.status # "scheduled" => ~is_conflicting(sessions, self)
        /\ \A p \in Proposals, pk \in Pks \cup {None},
              st \in FormStatuses \ {"scheduled"} :
              ~FormConflict(sessions, AsForm(p, DayName(p.date), st), pk)

(***************************************************************************)
(* C8: self-exclusion on edit.  Checking a stored scheduled session x with *)
(* its own teacher, date (day) and interval while excluding its own id     *)
(* gives the answer the store without x gives, so it reports no conflict   *)
(* when no other scheduled session the call site fetches intersects x;     *)
(* Session.is_conflicting never counts the session itself.                 *)
(***************************************************************************)
C8_SelfIsExcluded ==
    Serving =>
        \A x \in sessions :
            LET p == OwnProposal(x)
                others == sessions \ {x}
                form == AsForm(p, x.day_of_week, x.status)
            IN  /\ is_conflicting(sessions, x) <=> is_conflicting(others, x)
                /\ x.status = "scheduled" =>
                     /\ FormConflict(sessions, form, x.id)
                           <=> FormConflict(others, form, None)
                     /\ AjaxConflict(sessions, AsRequest(p, x.day_of_week, x.id))
                           <=> AjaxConflict(others, AsRequest(p, x.day_of_week, None))
                     /\ NoneIntersects({y \in Scheduled(others) :
                                           y.teacher = x.teacher /\ y.date = x.date}, p)
                           => /\ ~FormConflict(sessions, form, x.id)
                              /\ ~is_conflicting(sessions, x)
                     /\ NoneIntersects({y \in Scheduled(others) :
                                           /\ y.teacher = x.teacher
                                           /\ y.day_of_week = x.day_of_week}, p)
                           => ~AjaxConflict(sessions, AsRequest(p, x.day_of_week, x.id))

\* the endpoint has just answered "no conflict" to a request excluding the
\* scheduled session x, whose own interval conflicts when nothing is excluded
C8_Witness ==
    /\ last.op = "check_session_conflicts"
    /\ last.outcome = "none"
    /\ last.msg.kind = "No conflicts found"
    /\ \E x \in sessions :
          /\ x.id = last.pk /\ x.status = "scheduled"
          /\ AjaxConflict(sessions, AsRequest(OwnProposal(x), x.day_of_week, None))
          /\ ~AjaxConflict(sessions, AsRequest(OwnProposal(x), x.day_of_week, x.id))

(***************************************************************************)
(* C9: a create or edit submission that is found to conflict inserts and   *)
(* modifies no Session: the table after the rejected submission is the     *)
(* table before it.                                                        *)
(***************************************************************************)
C9_RejectedSubmissionPersistsNothing ==
    [][(last'.op \in {"create", "update"} /\ last'.outcome = "conflict")
          => (sessions' = sessions /\ nextId' = nextId)]_vars

\* an edit of a stored session has just been rejected for a conflict
C9_Witness ==
    /\ last.op = "update"
    /\ last.outcome = "conflict"
    /\ \E s \in sessions : s.id = last.pk

(***************************************************************************)
(* C10 (as stated): on a conflict the message of the form submission       *)
(* names the conflicting session's subject and its time range, as the      *)
(* endpoint's message does.                                                *)
(***************************************************************************)
NamesSubjectAndTimes(msg, s) ==
    /\ {"subject", "start", "end"} \subseteq DOMAIN msg
    /\ msg.subject = SubjectName(s.subject)
    /\ msg.start = TimeStr(s.start_time)
    /\ msg.end = TimeStr(s.end_time)

NamesTeacherTimesAndDate(msg, s) ==
    /\ {"teacher", "start", "end", "date"} \subseteq DOMAIN msg
    /\ msg.teacher = FullName(s.teacher)
    /\ msg.start = TimeStr(s.start_time)
    /\ msg.end = TimeStr(s.end_time)
    /\ msg.date = s.date

\* the form's part of C11
FormReportsAConflictingSession(p, pk) ==
    \A r \in SessionForm_is_valid(sessions, teachers,
                                  AsForm(p, DayName(p.date), "scheduled"), pk) :
        r.error = "conflict"
            => \E s \in ConflictingWith(sessions, p, pk) :
                  NamesTeacherTimesAndDate(r.msg, s)

\* the endpoint's part of C11
EndpointReportsAConflictingSession(p, pk) ==
    \A resp \in check_session_conflicts(sessions,
                                        AsRequest(p, DayName(p.date), pk)) :
        resp.has_conflict
            => \E s \in ConflictingWith(sessions, p, pk) :
                  NamesSubjectAndTimes(resp.msg, s)

C11_ReportedSessionConflicts ==
    Serving =>
        \A p \in Proposals, pk \in Pks \cup {None} :
            /\ FormReportsAConflictingSession(p, pk)
            /\ EndpointReportsAConflictingSession(p, pk)

\* the form's part of C11 alone (it holds)
C11_FormPartAlone ==
    Serving =>
        \A p \in Proposals, pk \in Pks \cup {None} :
            FormReportsAConflictingSession(p, pk)

(***************************************************************************)
(* C12: lenient boundary.  When one of teacher_id, day_of_week, start_time *)
(* and end_time is missing or empty, or a time string is not of the form   *)
(* strptime('%H:%M') accepts, check_session_conflicts answers              *)
(* has_conflict = false with a message, whatever the store holds.          *)
(***************************************************************************)
MalformedTimes ==
    {<<"9", "a", "m">>, <<"0", "9", "0", "0">>,
     <<"2", "5", ":", "0", "0">>, <<"0", "8", ":", "6", "0">>, <<":">>}

\* the well-formed request req with one required parameter missing, or with
\* one of its times malformed
Damaged(req) ==
    {[req EXCEPT !.teacher_id = <<>>], [req EXCEPT !.day_of_week = ""],
     [req EXCEPT !.start_time = <<>>], [req EXCEPT !.end_time = <<>>]}
    \cup {[req EXCEPT !.start_time = bad] : bad \in MalformedTimes}
    \cup {[req EXCEPT !.end_time = bad] : bad \in MalformedTimes}

\* the well-formed requests that start at 08:00
ProbeRequests == {req \in GoodRequests : req.start_time = FormatHM(480)}

C12_LenientBoundary ==
    Serving =>
        \A req \in ProbeRequests : \A bad \in Damaged(req) :
            /\ check_session_conflicts(sessions, bad) # {}
            /\ \A resp \in check_session_conflicts(sessions, bad) :
                  /\ resp.has_conflict = FALSE
                  /\ resp.msg.kind \in {"Incomplete data", "str(e)"}

\* the endpoint has just answered a malformed time with has_conflict = false
\* and str(e), while the store holds a scheduled session that the request
\* would conflict with if its times were read as 08:00-09:00
C12_Witness ==
    /\ last.op = "check_session_conflicts"
    /\ last.outcome = "none"
    /\ last.msg.kind = "str(e)"
    /\ last.msg.e = "time data does not match format '%H:%M'"
    /\ \E s \in Scheduled(sessions) :
          /\ s.teacher = 1 /\ s.day_of_week = "monday"
          /\ s.start_time = 480 /\ s.end_time = 540

(***************************************************************************)
(* C13 (as stated): strict mode.  When the teacher does not resolve to a   *)
(* Teacher, or a date or time input is malformed, the conflict check of    *)
(* SessionForm.clean fails with an error instead of returning              *)
(* 'no conflict'.                                                          *)
(***************************************************************************)
\* the submission `data` with an unresolvable teacher, or with its date or
\* one of its times missing or malformed (the field's to_python gives None)
InvalidInputs(data) ==
    {[data EXCEPT !.teacher = 9], [data EXCEPT !.date = None],
     [data EXCEPT !.start_time = None], [data EXCEPT !.end_time = None]}

Hostile(req) ==
    {[req EXCEPT !.method = "POST"], [req EXCEPT !.method = "HEAD"],
     [req EXCEPT !.teacher_id = <<"x">>], [req EXCEPT !.teacher_id = IdStr(9)],
     [req EXCEPT !.exclude_id = <<"x">>], [req EXCEPT !.exclude_id = IdStr(9)],
     [req EXCEPT !.teacher_id = <<"1", ".", "5">>],
     [req EXCEPT !.day_of_week = "someday"]}

JsonKinds ==
    {"Invalid request", "Incomplete data", "str(e)", "Conflict with",
     "No conflicts found"}

IsJsonAnswer(resp) ==
    /\ resp.has_conflict \in BOOLEAN
    /\ resp.msg.kind \in JsonKinds
    /\ resp.has_conflict <=> resp.msg.kind = "Conflict with"

C14_NoUnhandledException ==
    /\ Serving =>
          \A req \in ProbeRequests :
              \A r \in {req} \cup Damaged(req) \cup Hostile(req) :
                  /\ check_session_conflicts(sessions, r) # {}
                  /\ \A resp \in check_session_conflicts(sessions, r) :
                        IsJsonAnswer(resp)
    /\ last.op = "check_session_conflicts"
          => /\ last.outcome \in {"conflict", "none"}
             /\ last.msg.kind \in JsonKinds

\* the endpoint has just answered a request whose id is not a number
C14_Witness ==
    /\ last.op = "check_session_conflicts"
    /\ last.outcome = "none"
    /\ last.msg.kind = "str(e)"
    /\ last.msg.e = "Field 'id' expected a number"
    /\ sessions # {}

(***************************************************************************)
(* C15: the conflict check is a pure read.  A step of                      *)
(* check_session_conflicts or of Session.is_conflicting leaves the Session *)
(* rows, the Teacher rows and the pk sequence as they were, conflict or    *)
(* not; a form submission changes nothing unless it is valid and saved,    *)
(* and then nothing but the row it saves.                                  *)
(***************************************************************************)
RowsExcept(store, pk) == {s \in store : s.id # pk}

C15_CheckIsAPureRead ==
    [][/\ teachers' = teachers
       /\ last'.op \in {"check_session_conflicts", "is_conflicting"}
             => (sessions' = sessions /\ nextId' = nextId)
       /\ (last'.op \in {"create", "update"} /\ last'.outcome # "saved")
             => (sessions' = sessions /\ nextId' = nextId)
       /\ (last'.op = "update" /\ last'.outcome = "saved")
             => /\ RowsExcept(sessions', last'.pk) = RowsExcept(sessions, last'.pk)
                /\ nextId' = nextId]_vars

\* Session.is_conflicting has just answered True
C15_Witness ==
    /\ last.op = "is_conflicting"
    /\ last.outcome = "conflict"
    /\ \E self \in sessions : self.id = last.pk /\ is_conflicting(sessions, self)

(***************************************************************************)
(* C16: the check is advisory, not transactional.  Validation and save are *)
(* separate steps with no lock and no second check when the row is         *)
(* written: a submission that passed validation is saved as submitted,     *)
(* whatever the table holds by then, so two interleaved submissions of one *)
(* teacher and date with intersecting intervals are both persisted and a   *)
(* table with two intersecting scheduled sessions of one teacher on one    *)
(* date is reached.                                                        *)
(***************************************************************************)
C16_ValidatedSubmissionIsSavedUnchecked ==
    [][\A sub \in inflight :
          (sub \notin inflight' /\ sub.pk # None)
              => SavedRow(sub.instance, sub.data) \in sessions']_vars

\* two scheduled sessions of one teacher on one date with intersecting
\* intervals
DoubleBooked(x, y) ==
    /\ x.id # y.id /\ x.teacher = y.teacher /\ x.date = y.date
    /\ x.status = "scheduled" /\ y.status = "scheduled"
    /\ Intersect(x.start_time, x.end_time, y.start_time, y.end_time)

\* the second of two interleaved edits has just been saved and the table
\* holds two scheduled sessions that intersect
C16_Witness ==
    /\ last.op = "update"
    /\ last.outcome = "saved"
    /\ \E x \in sessions, y \in sessions : DoubleBooked(x, y)

\* requests served one after the other never double-book a teacher
NeverDoubleBooked ==
    \A x \in sessions, y \in sessions : ~DoubleBooked(x, y)

(***************************************************************************)
(* C17: both seeding routines check every candidate before inserting it.   *)
(* A loop iteration either saves exactly one new session, which intersects *)
(* no scheduled session the table already held for its teacher on its      *)
(* date, or skips the candidate, leaving the table as it was and going on  *)
(* with the loop; it never ends in an error.                               *)
(***************************************************************************)
SeedOps == {"create_sessions", "create_sessions_per_teacher"}

C17_SeedersSkipConflicts ==
    [][last'.op \in SeedOps =>
          /\ last'.outcome # "IntegrityError"
          /\ last'.outcome = "saved" =>
                \E y \in sessions' :
                    /\ y \notin sessions
                    /\ sessions' = sessions \cup {y}
                    /\ \A x \in sessions :
                          ~(/\ x.teacher = y.teacher /\ x.date = y.date
                            /\ x.status = "scheduled"
                            /\ Intersect(x.start_time, x.end_time,
                                         y.start_time, y.end_time))
          /\ last'.outcome = "skipped" =>
                /\ sessions' = sessions /\ nextId' = nextId
                /\ seed'.cmd = seed.cmd
          /\ last'.outcome \notin {"saved", "skipped"} => sessions' = sessions]_vars

\* create_sessions_per_teacher has just skipped a candidate
C17_Witness ==
    /\ last.op = "create_sessions_per_teacher"
    /\ last.outcome = "skipped"
    /\ seed.cmd = "create_sessions_per_teacher"
    /\ Scheduled(sessions) # {}

(***************************************************************************)
(* C18: in both seeding routines a candidate skipped for a conflict is     *)
(* retried with another random draw, so a skip does not by itself make the *)
(* run produce fewer sessions than requested: create_sessions ends with    *)
(* created_count = count, and the loop of create_sessions_per_teacher for  *)
(* a teacher ends short of sessions_per_teacher only when its attempts are *)
(* used up.                                                                *)
(***************************************************************************)
C18_SkippedCandidateIsRetried ==
    /\ (seed.cmd = "create_sessions" /\ seed.i = seed.count)
          => seed.created_count = seed.count
    /\ (seed.cmd = "create_sessions_per_teacher" /\ seed.queue # <<>>
        /\ ~PerTeacherLoopCondition)
          => \/ seed.created_for_teacher = seed.sessions_per_teacher
             \/ seed.attempts = seed.sessions_per_teacher * AttemptsFactor

\* the part of C18 about create_sessions_per_teacher alone (it holds): after
\* a skip the while loop goes on as long as attempts are left
C18_PerTeacherRetries ==
    [][(last'.op = "create_sessions_per_teacher" /\ last'.outcome = "skipped"
        /\ seed'.attempts < seed'.sessions_per_teacher * AttemptsFactor)
          => /\ seed'.cmd = "create_sessions_per_teacher"
             /\ seed'.queue = seed.queue
             /\ seed'.created_for_teacher = seed.created_for_teacher
             /\ PerTeacherLoopCondition']_vars

(***************************************************************************)
(* C19: symmetry.  For two intervals A and B of one teacher on one date,   *)
(* checking A against a table holding scheduled B gives the answer that    *)
(* checking B against a table holding scheduled A gives; when A and B do   *)
(* not intersect, both directions report no conflict.                      *)
(***************************************************************************)
\* the proposal p as a stored scheduled session with the given pk
AsSession(p, pk) ==
    [id |-> pk, teacher |-> p.teacher, subject |-> CHOOSE j \in SubjectIds : TRUE,
     date |-> p.date, day_of_week |-> DayName(p.date),
     start_time |-> p.start_time, end_time |-> p.end_time,
     duration |-> 1, status |-> "scheduled"]

\* the form's answer for proposal a against a table holding nothing but b
FormAgainst(a, b) ==
    FormConflict({AsSession(b, 1)}, AsForm(a, DayName(a.date), "scheduled"), None)

C19_Symmetry ==
    Serving =>
        /\ \A x \in Scheduled(sessions), p \in Proposals :
              (p.teacher = x.teacher /\ p.date = x.date /\ teachers[p.teacher] = "active")
                  => /\ FormConflict({x}, AsForm(p, DayName(p.date), "scheduled"), None)
                           <=> FormAgainst(OwnProposal(x), p)
                     /\ SeederConflict({x}, p)
                           <=> SeederConflict({AsSession(p, 1)}, OwnProposal(x))
                     /\ ~Intersect(p.start_time, p.end_time, x.start_time, x.end_time)
                           => /\ ~FormConflict({x}, AsForm(p, DayName(p.date),
                                                          "scheduled"), None)
                              /\ ~FormAgainst(OwnProposal(x), p)
        /\ \A x \in Scheduled(sessions), y \in Scheduled(sessions) :
              (x.id # y.id /\ x.teacher = y.teacher /\ x.date = y.date)
                  => /\ is_conflicting({x, y}, x) <=> is_conflicting({x, y}, y)
                     /\ ~Intersect(x.start_time, x.end_time, y.start_time, y.end_time)
                           => ~is_conflicting({x, y}, x) /\ ~is_conflicting({x, y}, y)

\* is_conflicting has just answered False for one of two scheduled sessions
\* of one teacher on one date that do not intersect
C19_Witness ==
    /\ last.op = "is_conflicting"
    /\ last.outcome = "none"
    /\ \E x \in Scheduled(sessions), y \in Scheduled(sessions) :
          /\ x.id = last.pk /\ x.id # y.id
          /\ x.teacher = y.teacher /\ x.date = y.date
          /\ ~Intersect(x.start_time, x.end_time, y.start_time, y.end_time)

(***************************************************************************)
(* C20: every conflict evaluation reads the table as it is at the call.    *)
(* Right after the operation that creates, reschedules, cancels or deletes *)
(* a session, the checks count it, count it with its new teacher, date     *)
(* (day) and interval and no longer with the old ones, or do not count it. *)
(***************************************************************************)
\* the scheduled session y is counted by the checks of the table `store`
Counted(store, y) ==
    /\ FormConflict(store, AsForm(OwnProposal(y), y.day_of_week, "scheduled"), None)
    /\ AjaxConflict(store, AsRequest(OwnProposal(y), y.day_of_week, None))
    /\ SeederConflict(store, OwnProposal(y))

\* the checks of the values of session x answer on `store` as they do on `other`
SameAnswers(store, other, x) ==
    /\ FormConflict(store, AsForm(OwnProposal(x), x.day_of_week, "scheduled"), None)
          <=> FormConflict(other, AsForm(OwnProposal(x), x.day_of_week,
                                         "scheduled"), None)
    /\ AjaxConflict(store, AsRequest(OwnProposal(x), x.day_of_week, None))
          <=> AjaxConflict(other, AsRequest(OwnProposal(x), x.day_of_week, None))
    /\ SeederConflict(store, OwnProposal(x)) <=> SeederConflict(other, OwnProposal(x))

C20_ChecksReadTheCurrentTable ==
    [][/\ (last'.op \in SeedOps /\ last'.outcome = "saved")
             => \A y \in sessions' \ sessions :
                   y.status = "scheduled" => Counted(sessions', y)
       /\ (last'.op = "update" /\ last'.outcome = "saved")
             => \A x \in sessions, y \in sessions' :
                   (x.id = last'.pk /\ y.id = last'.pk /\ y # x)
                       => /\ y.status = "scheduled" => Counted(sessions', y)
                          /\ y.status # "scheduled"
                                => SameAnswers(sessions', sessions' \ {y}, y)
                          /\ SameAnswers(sessions',
                                         RowsExcept(sessions, x.id) \cup {y}, x)
       /\ (last'.op = "delete" /\ last'.outcome = "deleted")
             => \A x \in sessions :
                   x.id = last'.pk
                       => /\ x \notin sessions'
                          /\ SameAnswers(sessions', RowsExcept(sessions, x.id), x)
      ]_vars

\* a scheduled session has just been cancelled by an edit, and its interval
\* is free again for its teacher
C20_Witness ==
    /\ last.op = "update"
    /\ last.outcome = "saved"
    /\ \E y \in sessions :
          /\ y.id = last.pk /\ y.status = "cancelled"
          /\ ~FormConflict(sessions, AsForm(OwnProposal(y), y.day_of_week,
                                            "scheduled"), None)

(***************************************************************************)
(* C21: every Session stored through the scheduling form or through a      *)
(* seeding routine has start_time < end_time.  SessionForm rejects every   *)
(* submission with start_time >= end_time with the error on end_time and   *)
(* the view persists nothing; every time slot of both seeders starts       *)
(* before it ends.                                                         *)
(***************************************************************************)
\* the submissions with both times given and the start not before the end
UnorderedForms ==
    {f \in FormInputs : f.start_time # None /\ f.start_time >= f.end_time}

SlotIsOrdered(slot) == strptime_HM(slot[1]) < strptime_HM(slot[2])

C21_StoredSessionsAreOrdered ==
    /\ \A s \in sessions : s.start_time < s.end_time
    /\ \A k \in DOMAIN DummyTimeSlots : SlotIsOrdered(DummyTimeSlots[k])
    /\ \A k \in DOMAIN TeacherTimeSlots : SlotIsOrdered(TeacherTimeSlots[k])
    /\ Serving =>
          \A data \in UnorderedForms, instance \in {NewInstance} \cup sessions :
              \A r \in SessionForm_is_valid(sessions, teachers, data, instance.id) :
                  /\ ~r.valid /\ r.error = "end_time"
                  /\ LET done == FormView_post(sessions, nextId, instance, data, r)
                     IN  /\ done.sessions = sessions
                         /\ done.nextId = nextId
                         /\ done.outcome = "end_time"
    /\ (last.op \in {"create", "update"} /\ last.outcome = "end_time")
          => last.msg.kind = "End time must be after start time."

\* the edit of a stored session to an interval that ends when it starts has
\* just been refused with the error on end_time
C21_Witness ==
    /\ last.op = "update"
    /\ last.outcome = "end_time"
    /\ \E s \in sessions : s.id = last.pk /\ s.start_time < s.end_time

(***************************************************************************)
(* C22: callers validate the ordering of the interval before the overlap   *)
(* scan.  At both call sites, the form and the endpoint, a stored session  *)
(* is compared with the proposed interval only when start_time < end_time: *)
(* a proposal with start_time >= end_time is turned away before any        *)
(* candidate is compared.                                                  *)
(***************************************************************************)
\* the form's part of C22
FormScansOnlyOrdered ==
    \A data \in FormInputs, pk \in Pks \cup {None} :
        LET cleaned == CleanedData(teachers, data)
        IN  FormScanned(sessions, cleaned, pk) # {}
                => cleaned.start_time < cleaned.end_time

\* the endpoint's part of C22
EndpointScansOnlyOrdered ==
    \A req \in GoodRequests :
        AjaxScanned(sessions, req) # {}
            => strptime_HM(req.start_time) < strptime_HM(req.end_time)

C22_ScanOnlyWithOrderedInterval ==
    Serving => (FormScansOnlyOrdered /\ EndpointScansOnlyOrdered)

\* the form's part of C22 alone (it holds)
C22_FormPartAlone ==
    Serving => FormScansOnlyOrdered

(***************************************************************************)
(* C23: the seeders' database filter (teacher, date, status 'scheduled',   *)
(* start_time__lt = proposed end, end_time__gt = proposed start, exists()) *)
(* gives the same boolean as the scan of SessionForm.clean (teacher, date, *)
(* status 'scheduled', then start < s.end and end > s.start) for every     *)
(* table and every proposed new session.                                   *)
(***************************************************************************)
\* the scan of clean() for the new session p finds a row
FormScanFinds(store, p) ==
    LET cleaned == AsForm(p, DayName(p.date), "scheduled")
    IN  FirstOverlap(FormScanned(store, cleaned, None),
                     cleaned.start_time, cleaned.end_time) # {}

C23_SeederFilterEqualsFormScan ==
    Serving =>
        \A p \in Proposals :
            /\ SeederConflict(sessions, p) <=> FormScanFinds(sessions, p)
            /\ p.teacher \in ActiveTeachers(teachers) =>
                  (SeederConflict(sessions, p)
                      <=> FormConflict(sessions,
                                       AsForm(p, DayName(p.date), "scheduled"), None))

\* create_sessions has just skipped a candidate: the filter and the scan
\* both find the stored scheduled session for its own interval
C23_Witness ==
    /\ last.op = "create_sessions"
    /\ last.outcome = "skipped"
    /\ \E x \in Scheduled(sessions) :
          /\ SeederConflict(sessions, OwnProposal(x))
          /\ FormScanFinds(sessions, OwnProposal(x))

(***************************************************************************)
(* C24: create_sessions_per_teacher(n) creates exactly n sessions for each *)
(* active teacher: when the loop of a teacher is over that teacher has     *)
(* gained n new sessions, and the total printed at the end is n times the  *)
(* number of active teachers.                                              *)
(***************************************************************************)
C24_ExactlyNPerTeacher ==
    /\ (seed.cmd = "create_sessions_per_teacher" /\ seed.queue # <<>>
        /\ ~PerTeacherLoopCondition)
          => seed.created_for_teacher = seed.sessions_per_teacher
    /\ (last.op = "create_sessions_per_teacher" /\ last.outcome = "done")
          => \E n \in 1..MaxCount :
                last.msg.count = n * Cardinality(ActiveTeachers(teachers))

(***************************************************************************)
(* C25: every session inserted by a seeding routine has a day_of_week      *)
(* equal to the weekday of its date.                                       *)
(***************************************************************************)
C25_SeededDayMatchesDate ==
    [][(last'.op \in SeedOps /\ last'.outcome = "saved")
          => \A y \in sessions' \ sessions : y.day_of_week = DayName(y.date)]_vars

(***************************************************************************)
(* C26: starting from an empty table, after any sequence of operations     *)
(* served one after the other (form create, form edit with any change of   *)
(* teacher, date, interval or status, delete, runs of the two seeders) no  *)
(* two distinct scheduled sessions of one teacher on one date have         *)
(* intersecting intervals.                                                 *)
(***************************************************************************)
C26_SequentialOperationsNeverDoubleBook ==
    /\ inflight = {}
    /\ \A x \in sessions, y \in sessions :
          (/\ x.id # y.id /\ x.teacher = y.teacher /\ x.date = y.date
           /\ x.status = "scheduled" /\ y.status = "scheduled")
              => ~Intersect(x.start_time, x.end_time, y.start_time, y.end_time)

\* an edit has just been saved that leaves two scheduled sessions of one
\* teacher on one date in the table, back to back
C26_Witness ==
    /\ last.op = "update"
    /\ last.outcome = "saved"
    /\ \E x \in Scheduled(sessions), y \in Scheduled(sessions) :
          /\ x.id = last.pk /\ y.id # x.id
          /\ x.teacher = y.teacher /\ x.date = y.date
          /\ x.start_time = y.end_time

(***************************************************************************)
(* C27: on a request to check_session_conflicts with well-formed           *)
(* teacher_id, day_of_week, start_time and end_time, whenever a scheduled  *)
(* session of that teacher on that day intersects the proposed interval    *)
(* and is not the session exclude_id identifies, the answer is             *)
(* has_conflict = true, for every value of exclude_id: absent, the id of a *)
(* stored session, an id of no session, or a string that is no number.     *)
(***************************************************************************)
\* the values of exclude_id: absent, the pks, a pk of no row, not a number
NumericExcludeIds == {<<>>, IdStr(9)} \cup {IdStr(n) : n \in Pks}
ExcludeIds == NumericExcludeIds \cup {<<"x">>}

\* the well-formed requests with start before end and the given exclude_id
OrderedRequests(xs) ==
    {[req EXCEPT !.exclude_id = x] : x \in xs,
        req \in {g \in GoodRequests : /\ g.exclude_id = <<>>
                                      /\ strptime_HM(g.start_time)
                                             < strptime_HM(g.end_time)}}

\* the scheduled sessions of the request's teacher and day that intersect
\* its interval and are not the session its exclude_id identifies
DayConflicts(store, req) ==
    {s \in Scheduled(store) :
        /\ s.teacher = ToInt(req.teacher_id)
        /\ s.day_of_week = req.day_of_week
        /\ Intersect(strptime_HM(req.start_time), strptime_HM(req.end_time),
                     s.start_time, s.end_time)
        /\ ~(AllDigits(req.exclude_id) /\ s.id = ToInt(req.exclude_id))}

ConflictIsReported(xs) ==
    \A req \in OrderedRequests(xs) :
        DayConflicts(sessions, req) # {}
            => \A resp \in check_session_conflicts(sessions, req) : resp.has_conflict

C27_ConflictReportedForEveryExcludeId ==
    Serving => ConflictIsReported(ExcludeIds)

\* the part of C27 about an exclude_id that is absent or a number (it holds)
C27_NumericExcludeIdsAlone ==
    Serving => ConflictIsReported(NumericExcludeIds)

(***************************************************************************)
(* C28: a well-formed, non-conflicting submission to SessionCreateView     *)
(* persists exactly one new Session, and every required field of the row,  *)
(* duration included, has a value when it is saved.                        *)
(***************************************************************************)
C28_ValidCreateStoresOneSession ==
    [][(last'.op = "create" /\ last'.outcome \notin {"field", "end_time", "conflict"})
          => /\ last'.outcome = "saved"
             /\ \E y \in sessions' \ sessions :
                   /\ sessions' = sessions \cup {y}
                   /\ y.duration # None]_vars

(***************************************************************************)
(* C29: a session is accepted by SessionForm or inserted by a seeding      *)
(* routine only for a teacher whose status is 'active' at that moment.  A  *)
(* create or edit submission naming a teacher who is inactive or on leave  *)
(* is rejected and nothing is persisted, the edit of a stored session      *)
(* whose teacher has since become inactive included.                       *)
(***************************************************************************)
\* every submission naming a teacher who is not active is refused by the
\* form and the view leaves the table as it is
InactiveTeacherIsRefused ==
    \A data \in StaffForms, instance \in {NewInstance} \cup sessions :
        teachers[data.teacher] # "active" =>
            \A r \in SessionForm_is_valid(sessions, teachers, data, instance.id) :
                /\ ~r.valid
                /\ LET done == FormView_post(sessions, nextId, instance, data, r)
                   IN  done.sessions = sessions /\ done.nextId = nextId

C29_OnlyActiveTeachersAreScheduled ==
    [][/\ Serving => InactiveTeacherIsRefused
       /\ (last'.op \in {"create", "update"} /\ last'.outcome = "saved")
             => \A y \in sessions' \ sessions : teachers[y.teacher] = "active"
       /\ (last'.op \in SeedOps /\ last'.outcome = "saved")
             => \A y \in sessions' \ sessions : teachers'[y.teacher] = "active"
       /\ (last'.op \in {"create", "update"} /\ last'.outcome # "saved")
             => sessions' = sessions]_vars

\* the edit of a stored session whose teacher is no longer active has just
\* been refused for the teacher field
C29_Witness ==
    /\ last.op = "update"
    /\ last.outcome = "field"
    /\ \E s \in sessions : s.id = last.pk /\ teachers[s.teacher] # "active"

(***************************************************************************)
(* C30: the seeding routines terminate.  For each teacher the loop of      *)
(* create_sessions_per_teacher(n) makes at most 3 * n attempts and creates *)
(* at most n sessions, also when every candidate drawn conflicts;          *)
(* create_sessions(count) makes exactly count attempts and creates at most *)
(* count sessions; every run that was started reaches its end.             *)
(***************************************************************************)
SeedCountersWithinBounds ==
    /\ seed.cmd = "create_sessions_per_teacher"
          => /\ seed.attempts <= AttemptsFactor * seed.sessions_per_teacher
             /\ seed.created_for_teacher <= seed.sessions_per_teacher
             /\ seed.created_for_teacher <= seed.attempts
    /\ seed.cmd = "create_sessions"
          => /\ seed.i <= seed.count
             /\ seed.created_count <= seed.i

C30_SeedersTerminate ==
    /\ []SeedCountersWithinBounds
    /\ [][(seed.cmd = "create_sessions" /\ seed'.cmd = "none")
             => (seed.i = seed.count /\ seed.created_count <= seed.count)]_vars
    /\ (seed.cmd # "none") ~> (seed = Idle)

\* the loop of a teacher has used up its 3 * n attempts with every candidate
\* drawn conflicting: nothing was created for the teacher
C30_Witness ==
    /\ seed.cmd = "create_sessions_per_teacher"
    /\ seed.queue # <<>>
    /\ seed.attempts = AttemptsFactor * seed.sessions_per_teacher
    /\ seed.created_for_teacher = 0
    /\ last.outcome = "skipped"

====
